---- MODULE Spec2Model ----
(***************************************************************************)
(* The watch-normalize-publish pipeline of pytroll_watchers'                *)
(* minio_notification_watcher: _record_generator (the bucket-notification  *)
(* subscription), file_generator (the event normalizer) and file_publisher *)
(* (the publish loop), with the transport, the sink and the consumer as    *)
(* the environment.                                                        *)
(***************************************************************************)
EXTENDS Integers, Sequences, FiniteSets, TLC

\* ------------------------------------------------------------------ bounds
MaxNotifs == 2          \* notifications the transport delivers in one run
MaxTotalEntries == 3    \* entries over all the notifications of one run

\* ------------------------------------------------------------- data shapes
\* An optional argument is None or Some(value).
None == <<>>
Some(x) == <<x>>

\* Object keys are sequences of tokens, so that the location string
\* f"s3://{bucket}/{key}" is a real concatenation.
KeySVM13 == <<"SVM13", ".h5">>
KeyGITCO == <<"GITCO", ".h5">>
KeySdrSVM13 == <<"sdr/", "SVM13", ".h5">>

\* A trollsift pattern: literal and placeholder segments, e.g. "{product}.h5".
PatternProductH5 == <<[placeholder |-> "product"], [literal |-> ".h5"]>>
\* "{url}.h5": a placeholder named like a field of the resolved address.
PatternUrlH5 == <<[placeholder |-> "url"], [literal |-> ".h5"]>>

\* The RecordEntry items the transport may deliver (item of record["Records"]).
EntrySVM13 ==
    [eventName |-> "s3:ObjectCreated:Put",
     s3 |-> [bucket |-> [name |-> "viirs-data"], object |-> [key |-> KeySVM13]]]
\* An entry naming another bucket than the watched one.
EntryGITCO ==
    [eventName |-> "s3:ObjectCreated:Put",
     s3 |-> [bucket |-> [name |-> "archive"], object |-> [key |-> KeyGITCO]]]
EntrySdr ==
    [eventName |-> "s3:ObjectCreated:Put",
     s3 |-> [bucket |-> [name |-> "viirs-data"], object |-> [key |-> KeySdrSVM13]]]
\* EntrySVM13 again, every field but the bucket name and the key different.
EntrySVM13Copy ==
    [eventName |-> "s3:ObjectCreated:Copy", eventTime |-> "2024-04-08T10:24:22.666Z",
     source |-> [userAgent |-> "aiobotocore/2.12.1"],
     s3 |-> [bucket |-> [name |-> "viirs-data", arn |-> "arn:aws:s3:::viirs-data"],
             object |-> [key |-> KeySVM13, eTag |-> "f92d", size |-> "12357960"]]]
EntryNoKey ==
    [eventName |-> "s3:ObjectCreated:Put",
     s3 |-> [bucket |-> [name |-> "viirs-data"], object |-> [eTag |-> "9f6f"]]]
EntryNoBucket ==
    [eventName |-> "s3:ObjectCreated:Put",
     s3 |-> [object |-> [key |-> KeySVM13]]]

Entries == {EntrySVM13, EntrySVM13Copy, EntryGITCO, EntrySdr, EntryNoKey, EntryNoBucket}

\* item["s3"]["bucket"]["name"] and item["s3"]["object"]["key"] raise KeyError
\* when a level of the nesting is absent.
HasBucketName(item) ==
    /\ "s3" \in DOMAIN item
    /\ "bucket" \in DOMAIN item.s3
    /\ "name" \in DOMAIN item.s3.bucket

HasObjectKey(item) ==
    /\ "s3" \in DOMAIN item
    /\ "object" \in DOMAIN item.s3
    /\ "key" \in DOMAIN item.s3.object

\* ------------------------------------------------------ metadata extractor
EmptyMetadata == [n \in {} |-> <<>>]

PlaceholderNames(pattern) ==
    {pattern[i].placeholder : i \in {j \in 1..Len(pattern) : "placeholder" \in DOMAIN pattern[j]}}

\* Anchored structural match of the whole key against the pattern's segments.
PatternMatches(pattern, key) ==
    /\ Len(key) = Len(pattern)
    /\ \A i \in 1..Len(pattern) :
          "literal" \in DOMAIN pattern[i] => key[i] = pattern[i].literal

\* parse_metadata(file_pattern, object_name): the metadata, or ValueError.
parse_metadata(pattern, key) ==
    IF pattern = None
    THEN [raised |-> FALSE, metadata |-> EmptyMetadata]
    ELSE IF PatternMatches(pattern[1], key)
         THEN [raised |-> FALSE,
               metadata |-> [n \in PlaceholderNames(pattern[1]) |->
                               <<key[CHOOSE i \in 1..Len(pattern[1]) :
                                        /\ "placeholder" \in DOMAIN pattern[1][i]
                                        /\ pattern[1][i].placeholder = n]>>]]
         ELSE [raised |-> TRUE, metadata |-> EmptyMetadata]

\* UPath with the separator between bucket and key left out of the f-string.
UPathNoSeparator(bucket, key, options) ==
    [url |-> <<"s3://", bucket>> \o key, storage_options |-> options]

\* UPath(f"s3://{new_bucket_name}/{object_name}", **storage_options)
UPath(bucket, key, options) ==
    [url |-> <<"s3://", bucket, "/">> \o key, storage_options |-> options]

\* ------------------------------------------------------------ configuration
EmptyOptions == [n \in {} |-> ""]
ProfileOptions == [profile |-> "someprofile"]
\* Options that name no profile.
AnonOptions == [anon |-> "true"]

\* fs_config of the tests: the bucket to watch.
bucket_name == "viirs-data"

\* The parameters of file_generator (line 26) and those without a default.
Parameters == {"endpoint_url", "bucket_name", "file_pattern", "storage_options"}
RequiredParameters == {"endpoint_url", "bucket_name"}

\* The keyword arguments a caller may pass as fs_config: endpoint and bucket
\* alone, or with a pattern and storage options ...
FsConfigBase == [endpoint_url |-> "someendpoint", bucket_name |-> bucket_name]
NoArgument == [n \in {} |-> <<>>]
FsConfigs ==
    {FsConfigBase @@ NoArgument,
     FsConfigBase @@ [file_pattern |-> PatternUrlH5,
                      storage_options |-> AnonOptions],
     FsConfigBase @@ [file_pattern |-> PatternProductH5,
                      storage_options |-> ProfileOptions]}
\* ... and the s3_config of the tests, the profile given as the option
\* `profile`.
TestFsConfig == FsConfigBase @@ [profile |-> "someprofile"]

\* message_config of file_publisher (subject, atype, static data).
message_config ==
    [subject |-> "/segment/viirs/l1b/", atype |-> "file",
     data |-> [sensor |-> <<"viirs">>, product |-> <<"static">>,
               url |-> <<"static">>]]

\* ------------------------------------------------------------------- state
VARIABLES
    fs_config,        \* the keyword arguments of the call of file_generator
    file_pattern,     \* parameter of file_generator: None or Some(pattern)
    storage_options,  \* parameter of file_generator: None or Some(mapping)
    mode,             \* who consumes the sequence: "publisher" or "iterate"
    cons,             \* position of the consumer
    gpc,              \* position of the file_generator generator
    sub,              \* the bucket-notification subscription: none, open, released
    orphan,           \* _record_generator is suspended inside its with-block and
                      \* no frame is left that will resume or close it
    credentials,      \* credentials handed to the Minio client
    connects,         \* calls of listen_bucket_notification
    record,           \* record["Records"] of the notification being expanded
    idx,              \* entries of record taken so far by the inner for loop
    object_metadata,  \* the local of that name
    delivered,        \* notifications the transport has delivered, in order
    srcEnded,         \* the transport has signalled the end of the stream
    yielded,          \* events file_generator has yielded, in order
    sent,             \* messages the sink has accepted, in order
    err,              \* the exception that ended the generator or the publish loop
    pipes             \* the generators of two sources watched side by side

config == <<fs_config, file_pattern, storage_options, mode, pipes>>
vars == <<fs_config, file_pattern, storage_options, mode, cons, gpc, sub, orphan, credentials,
          connects, record, idx, object_metadata, delivered, srcEnded, yielded,
          sent, err, pipes>>

\* storage_options after lines 50-51.
Options == IF storage_options = None THEN EmptyOptions ELSE storage_options[1]

RECURSIVE TotalEntries(_)
TotalEntries(notifs) ==
    IF notifs = <<>> THEN 0 ELSE Len(Head(notifs)) + TotalEntries(Tail(notifs))

\* The notifications (lists of entries) the transport may deliver next.
Notifications ==
    UNION {[1..l -> Entries] : l \in 0..(MaxTotalEntries - TotalEntries(delivered))}

Init ==
    /\ fs_config \in FsConfigs \cup {TestFsConfig}
    /\ file_pattern = None
    /\ storage_options = None
    /\ mode \in {"publisher", "iterate"}
    /\ cons = "idle"
    /\ gpc = "none"
    /\ sub = "none"
    /\ orphan = FALSE
    /\ credentials = None
    /\ connects = 0
    /\ record = <<>>
    /\ idx = 0
    /\ object_metadata = EmptyMetadata
    /\ delivered = <<>>
    /\ srcEnded = FALSE
    /\ yielded = <<>>
    /\ sent = <<>>
    /\ err = "none"
    /\ pipes = <<>>

\* ------------------------------------------------------------- the callers
\* file_publisher: file_generator(**fs_config) binds the keyword arguments
\* (line 22) and the publish loop is entered; a keyword that is no parameter
\* of file_generator is a TypeError at the caller.
file_publisher ==
    /\ mode = "publisher"
    /\ cons = "idle"
    /\ IF DOMAIN fs_config \subseteq Parameters
          /\ RequiredParameters \subseteq DOMAIN fs_config
       THEN /\ file_pattern' = IF "file_pattern" \in DOMAIN fs_config
                               THEN Some(fs_config.file_pattern) ELSE None
            /\ storage_options' = IF "storage_options" \in DOMAIN fs_config
                                  THEN Some(fs_config.storage_options) ELSE None
            /\ cons' = "ready"
            /\ gpc' = "created"
            /\ err' = err
       ELSE \* TypeError: unexpected or missing keyword argument
            /\ cons' = "failed"
            /\ err' = "TypeError"
            /\ UNCHANGED <<file_pattern, storage_options, gpc>>
    /\ UNCHANGED <<fs_config, mode, pipes, sub, orphan, credentials, connects, record, idx,
                   object_metadata, delivered, srcEnded, yielded, sent>>

\* A direct call file_generator(**fs_config): the arguments are bound and the
\* generator is returned, none of its body run; a keyword that is no
\* parameter (line 26) is a TypeError.
file_generator ==
    /\ mode = "iterate"
    /\ cons = "idle"
    /\ IF DOMAIN fs_config \subseteq Parameters
          /\ RequiredParameters \subseteq DOMAIN fs_config
       THEN /\ file_pattern' = IF "file_pattern" \in DOMAIN fs_config
                               THEN Some(fs_config.file_pattern) ELSE None
            /\ storage_options' = IF "storage_options" \in DOMAIN fs_config
                                  THEN Some(fs_config.storage_options) ELSE None
            /\ cons' = "ready"
            /\ gpc' = "created"
            /\ err' = err
       ELSE \* TypeError: unexpected or missing keyword argument
            /\ cons' = "failed"
            /\ err' = "TypeError"
            /\ UNCHANGED <<file_pattern, storage_options, gpc>>
    /\ UNCHANGED <<fs_config, mode, pipes, sub, orphan, credentials, connects, record, idx,
                   object_metadata, delivered, srcEnded, yielded, sent>>

\* The consumer asks for the next event: the generator starts (lines 48-52) or
\* resumes after its yield (line 62).
PullNext ==
    /\ cons = "ready"
    /\ gpc \in {"created", "yielded"}
    /\ cons' = "waiting"
    /\ gpc' = IF gpc = "created" THEN "open" ELSE "item"
    /\ object_metadata' = IF gpc = "created" THEN EmptyMetadata ELSE object_metadata
    /\ UNCHANGED <<config, sub, orphan, credentials, connects, record, idx,
                   delivered, srcEnded, yielded, sent, err>>

\* -------------------------------------------------------- _record_generator
\* RecordGeneratorOpen with a connection failure retried instead of raised.
RecordGeneratorOpenRetrying ==
    /\ gpc = "open"
    /\ connects < 3
    /\ connects' = connects + 1
    /\ credentials' = IF "profile" \in DOMAIN Options
                      THEN Some(Options.profile) ELSE None
    /\ \E connected \in BOOLEAN :
          IF connected
          THEN /\ sub' = "open"
               /\ gpc' = "fetch"
               /\ err' = err
          ELSE /\ sub' = sub
               /\ gpc' = "open"
               /\ err' = "ConnectError"
    /\ UNCHANGED <<config, cons, orphan, record, idx, object_metadata, delivered,
                   srcEnded, yielded, sent>>

\* RecordGeneratorOpen with the profile option ignored: the client is always
\* built without credentials.
RecordGeneratorOpenNoCredentials ==
    /\ gpc = "open"
    /\ connects' = connects + 1
    /\ credentials' = None
    /\ \E connected \in BOOLEAN :
          IF connected
          THEN /\ sub' = "open"
               /\ gpc' = "fetch"
               /\ err' = err
          ELSE /\ sub' = sub
               /\ gpc' = "raised"
               /\ err' = "ConnectError"
    /\ UNCHANGED <<config, cons, orphan, record, idx, object_metadata, delivered,
                   srcEnded, yielded, sent>>

\* Lines 65-83: credentials, client, and the subscription is opened, or the
\* transport fails to connect and its exception leaves both generators.
\* The mapping is that of lines 50-51 (never None here).
RecordGeneratorOpen ==
    /\ gpc = "open"
    /\ connects' = connects + 1
    /\ credentials' = IF "profile" \in DOMAIN Options
                      THEN Some(Options.profile) ELSE None
    /\ \E connected \in BOOLEAN :
          IF connected
          THEN /\ sub' = "open"
               /\ gpc' = "fetch"
               /\ err' = err
          ELSE /\ sub' = sub
               /\ gpc' = "raised"
               /\ err' = "ConnectError"
    /\ UNCHANGED <<config, cons, orphan, record, idx, object_metadata, delivered,
                   srcEnded, yielded, sent>>

\* NextNotification reading ahead: the next notification is taken from the
\* subscription while entries of the current one are still to be expanded.
NextNotificationAhead ==
    /\ gpc \in {"fetch", "item"}
    /\ Len(delivered) < MaxNotifs
    /\ \E n \in Notifications :
          /\ delivered' = Append(delivered, n)
          /\ record' = n
    /\ idx' = 0
    /\ gpc' = "item"
    /\ UNCHANGED <<config, cons, sub, orphan, credentials, connects,
                   object_metadata, srcEnded, yielded, sent, err>>

\* Lines 84-85 and 52-53: the transport delivers a notification.
NextNotification ==
    /\ gpc = "fetch"
    /\ Len(delivered) < MaxNotifs
    /\ \E n \in Notifications :
          /\ delivered' = Append(delivered, n)
          /\ record' = n
    /\ idx' = 0
    /\ gpc' = "item"
    /\ UNCHANGED <<config, cons, sub, orphan, credentials, connects,
                   object_metadata, srcEnded, yielded, sent, err>>

\* SubscriptionExhausted with the end of the events ignored: the generator
\* goes on waiting for a notification.
SubscriptionExhaustedWaiting ==
    /\ gpc = "fetch"
    /\ srcEnded' = TRUE
    /\ UNCHANGED <<config, cons, gpc, sub, orphan, credentials, connects, record,
                   idx, object_metadata, delivered, yielded, sent, err>>

\* Line 84: the events iterator is exhausted; the with-block exits (line 79),
\* both for loops end and file_generator returns.
SubscriptionExhausted ==
    /\ gpc = "fetch"
    /\ srcEnded' = TRUE
    /\ sub' = "released"
    /\ gpc' = "done"
    /\ UNCHANGED <<config, cons, orphan, credentials, connects, record, idx,
                   object_metadata, delivered, yielded, sent, err>>

\* SubscriptionReadError with the read error swallowed: the sequence just ends.
SubscriptionReadErrorSwallowed ==
    /\ gpc = "fetch"
    /\ err' = "ReadError"
    /\ sub' = "released"
    /\ gpc' = "done"
    /\ UNCHANGED <<config, cons, orphan, credentials, connects, record, idx,
                   object_metadata, delivered, srcEnded, yielded, sent>>

\* Line 84: reading the open subscription raises; the with-block exits on the
\* exception, which leaves _record_generator and then file_generator.
SubscriptionReadError ==
    /\ gpc = "fetch"
    /\ err' = "ReadError"
    /\ sub' = "released"
    /\ gpc' = "raised"
    /\ UNCHANGED <<config, cons, orphan, credentials, connects, record, idx,
                   object_metadata, delivered, srcEnded, yielded, sent>>

\* ----------------------------------------------------------- file_generator
\* NormalizeItem walking record["Records"] from its end.
NormalizeItemReversed ==
    /\ gpc = "item"
    /\ idx < Len(record)
    /\ idx' = idx + 1
    /\ LET item == record[Len(record) - idx] IN
       IF ~(HasBucketName(item) /\ HasObjectKey(item))
       THEN /\ err' = "KeyError"
            /\ gpc' = "raised"
            /\ orphan' = TRUE
            /\ UNCHANGED <<object_metadata, yielded>>
       ELSE LET new_bucket_name == item.s3.bucket.name
                object_name == item.s3.object.key
                parsed == parse_metadata(file_pattern, object_name)
            IN  IF parsed.raised
                THEN /\ gpc' = "item"
                     /\ UNCHANGED <<object_metadata, yielded, orphan, err>>
                ELSE /\ object_metadata' = parsed.metadata
                     /\ yielded' = Append(yielded,
                           [path |-> UPath(new_bucket_name, object_name, Options),
                            metadata |-> parsed.metadata])
                     /\ gpc' = "yielded"
                     /\ UNCHANGED <<orphan, err>>
    /\ UNCHANGED <<config, cons, sub, credentials, connects, record, delivered,
                   srcEnded, sent>>

\* NormalizeItem with `break` for `continue` at line 59.
NormalizeItemBreaking ==
    /\ gpc = "item"
    /\ idx < Len(record)
    /\ idx' = idx + 1
    /\ LET item == record[idx + 1] IN
       IF ~(HasBucketName(item) /\ HasObjectKey(item))
       THEN /\ err' = "KeyError"
            /\ gpc' = "raised"
            /\ orphan' = TRUE
            /\ UNCHANGED <<object_metadata, yielded>>
       ELSE LET new_bucket_name == item.s3.bucket.name
                object_name == item.s3.object.key
                parsed == parse_metadata(file_pattern, object_name)
            IN  IF parsed.raised
                THEN /\ gpc' = "fetch"
                     /\ UNCHANGED <<object_metadata, yielded, orphan, err>>
                ELSE /\ object_metadata' = parsed.metadata
                     /\ yielded' = Append(yielded,
                           [path |-> UPath(new_bucket_name, object_name, Options),
                            metadata |-> parsed.metadata])
                     /\ gpc' = "yielded"
                     /\ UNCHANGED <<orphan, err>>
    /\ UNCHANGED <<config, cons, sub, credentials, connects, record, delivered,
                   srcEnded, sent>>

\* NormalizeItem building the location from the watched bucket_name instead
\* of the entry's own bucket.
NormalizeItemWatchedBucket ==
    /\ gpc = "item"
    /\ idx < Len(record)
    /\ idx' = idx + 1
    /\ LET item == record[idx + 1] IN
       IF ~(HasBucketName(item) /\ HasObjectKey(item))
       THEN /\ err' = "KeyError"
            /\ gpc' = "raised"
            /\ orphan' = TRUE
            /\ UNCHANGED <<object_metadata, yielded>>
       ELSE LET new_bucket_name == bucket_name
                object_name == item.s3.object.key
                parsed == parse_metadata(file_pattern, object_name)
            IN  IF parsed.raised
                THEN /\ gpc' = "item"
                     /\ UNCHANGED <<object_metadata, yielded, orphan, err>>
                ELSE /\ object_metadata' = parsed.metadata
                     /\ yielded' = Append(yielded,
                           [path |-> UPath(new_bucket_name, object_name, Options),
                            metadata |-> parsed.metadata])
                     /\ gpc' = "yielded"
                     /\ UNCHANGED <<orphan, err>>
    /\ UNCHANGED <<config, cons, sub, credentials, connects, record, delivered,
                   srcEnded, sent>>

\* NormalizeItem taking the whole notification before it yields (a list built
\* ahead of the consumer): the entries after the yielded one are used up.
NormalizeItemEager ==
    /\ gpc = "item"
    /\ idx < Len(record)
    /\ idx' = Len(record)
    /\ LET item == record[idx + 1] IN
       IF ~(HasBucketName(item) /\ HasObjectKey(item))
       THEN /\ err' = "KeyError"
            /\ gpc' = "raised"
            /\ orphan' = TRUE
            /\ UNCHANGED <<object_metadata, yielded>>
       ELSE LET new_bucket_name == item.s3.bucket.name
                object_name == item.s3.object.key
                parsed == parse_metadata(file_pattern, object_name)
            IN  IF parsed.raised
                THEN /\ gpc' = "item"
                     /\ UNCHANGED <<object_metadata, yielded, orphan, err>>
                ELSE /\ object_metadata' = parsed.metadata
                     /\ yielded' = Append(yielded,
                           [path |-> UPath(new_bucket_name, object_name, Options),
                            metadata |-> parsed.metadata])
                     /\ gpc' = "yielded"
                     /\ UNCHANGED <<orphan, err>>
    /\ UNCHANGED <<config, cons, sub, credentials, connects, record, delivered,
                   srcEnded, sent>>

\* NormalizeItem dropping the entries of any bucket but the watched one.
NormalizeItemOwnBucketOnly ==
    /\ gpc = "item"
    /\ idx < Len(record)
    /\ idx' = idx + 1
    /\ LET item == record[idx + 1] IN
       IF ~(HasBucketName(item) /\ HasObjectKey(item))
       THEN /\ err' = "KeyError"
            /\ gpc' = "raised"
            /\ orphan' = TRUE
            /\ UNCHANGED <<object_metadata, yielded>>
       ELSE LET new_bucket_name == item.s3.bucket.name
                object_name == item.s3.object.key
                parsed == parse_metadata(file_pattern, object_name)
            IN  IF parsed.raised \/ new_bucket_name # bucket_name
                THEN /\ gpc' = "item"
                     /\ UNCHANGED <<object_metadata, yielded, orphan, err>>
                ELSE /\ object_metadata' = parsed.metadata
                     /\ yielded' = Append(yielded,
                           [path |-> UPath(new_bucket_name, object_name, Options),
                            metadata |-> parsed.metadata])
                     /\ gpc' = "yielded"
                     /\ UNCHANGED <<orphan, err>>
    /\ UNCHANGED <<config, cons, sub, credentials, connects, record, delivered,
                   srcEnded, sent>>

\* NormalizeItem looking at the event name: only Put events are let through.
NormalizeItemPutOnly ==
    /\ gpc = "item"
    /\ idx < Len(record)
    /\ idx' = idx + 1
    /\ LET item == record[idx + 1] IN
       IF ~(HasBucketName(item) /\ HasObjectKey(item))
       THEN /\ err' = "KeyError"
            /\ gpc' = "raised"
            /\ orphan' = TRUE
            /\ UNCHANGED <<object_metadata, yielded>>
       ELSE LET new_bucket_name == item.s3.bucket.name
                object_name == item.s3.object.key
                parsed == parse_metadata(file_pattern, object_name)
            IN  IF parsed.raised \/ item.eventName # "s3:ObjectCreated:Put"
                THEN /\ gpc' = "item"
                     /\ UNCHANGED <<object_metadata, yielded, orphan, err>>
                ELSE /\ object_metadata' = parsed.metadata
                     /\ yielded' = Append(yielded,
                           [path |-> UPath(new_bucket_name, object_name, Options),
                            metadata |-> parsed.metadata])
                     /\ gpc' = "yielded"
                     /\ UNCHANGED <<orphan, err>>
    /\ UNCHANGED <<config, cons, sub, credentials, connects, record, delivered,
                   srcEnded, sent>>

\* The key without its prefix (the part after the last "/").
Basename(key) == IF key # <<>> /\ key[1] = "sdr/" THEN Tail(key) ELSE key

\* NormalizeItem matching the pattern against the file name only, the key's
\* prefix stripped.
NormalizeItemBasename ==
    /\ gpc = "item"
    /\ idx < Len(record)
    /\ idx' = idx + 1
    /\ LET item == record[idx + 1] IN
       IF ~(HasBucketName(item) /\ HasObjectKey(item))
       THEN /\ err' = "KeyError"
            /\ gpc' = "raised"
            /\ orphan' = TRUE
            /\ UNCHANGED <<object_metadata, yielded>>
       ELSE LET new_bucket_name == item.s3.bucket.name
                object_name == item.s3.object.key
                parsed == parse_metadata(file_pattern, Basename(object_name))
            IN  IF parsed.raised
                THEN /\ gpc' = "item"
                     /\ UNCHANGED <<object_metadata, yielded, orphan, err>>
                ELSE /\ object_metadata' = parsed.metadata
                     /\ yielded' = Append(yielded,
                           [path |-> UPath(new_bucket_name, object_name, Options),
                            metadata |-> parsed.metadata])
                     /\ gpc' = "yielded"
                     /\ UNCHANGED <<orphan, err>>
    /\ UNCHANGED <<config, cons, sub, credentials, connects, record, delivered,
                   srcEnded, sent>>

\* NormalizeItem with `pass` for `continue` at line 59: an entry whose key
\* does not match is yielded with the object_metadata left by an earlier one.
NormalizeItemStaleMetadata ==
    /\ gpc = "item"
    /\ idx < Len(record)
    /\ idx' = idx + 1
    /\ LET item == record[idx + 1] IN
       IF ~(HasBucketName(item) /\ HasObjectKey(item))
       THEN /\ err' = "KeyError"
            /\ gpc' = "raised"
            /\ orphan' = TRUE
            /\ UNCHANGED <<object_metadata, yielded>>
       ELSE LET new_bucket_name == item.s3.bucket.name
                object_name == item.s3.object.key
                parsed == parse_metadata(file_pattern, object_name)
                kept == IF parsed.raised THEN object_metadata ELSE parsed.metadata
            IN  /\ object_metadata' = kept
                /\ yielded' = Append(yielded,
                      [path |-> UPath(new_bucket_name, object_name, Options),
                       metadata |-> kept])
                /\ gpc' = "yielded"
                /\ UNCHANGED <<orphan, err>>
    /\ UNCHANGED <<config, cons, sub, credentials, connects, record, delivered,
                   srcEnded, sent>>

\* Lines 53-62, one entry of the current notification.
NormalizeItem ==
    /\ gpc = "item"
    /\ idx < Len(record)
    /\ idx' = idx + 1
    /\ LET item == record[idx + 1] IN
       IF ~(HasBucketName(item) /\ HasObjectKey(item))
       THEN \* KeyError at line 54 or 55: not caught by line 58
            /\ err' = "KeyError"
            /\ gpc' = "raised"
            /\ orphan' = TRUE
            /\ UNCHANGED <<object_metadata, yielded>>
       ELSE LET new_bucket_name == item.s3.bucket.name
                object_name == item.s3.object.key
                parsed == parse_metadata(file_pattern, object_name)
            IN  IF parsed.raised
                THEN \* except ValueError: continue
                     /\ gpc' = "item"
                     /\ UNCHANGED <<object_metadata, yielded, orphan, err>>
                ELSE /\ object_metadata' = parsed.metadata
                     /\ yielded' = Append(yielded,
                           [path |-> UPath(new_bucket_name, object_name, Options),
                            metadata |-> parsed.metadata])
                     /\ gpc' = "yielded"
                     /\ UNCHANGED <<orphan, err>>
    /\ UNCHANGED <<config, cons, sub, credentials, connects, record, delivered,
                   srcEnded, sent>>

\* RecordsDone taking a notification without entries for the end of the
\* stream: the generator returns.
RecordsDoneEndsOnEmpty ==
    /\ gpc = "item"
    /\ idx = Len(record)
    /\ gpc' = IF record = <<>> THEN "done" ELSE "fetch"
    /\ sub' = IF record = <<>> THEN "released" ELSE sub
    /\ UNCHANGED <<config, cons, orphan, credentials, connects, record, idx,
                   object_metadata, delivered, srcEnded, yielded, sent, err>>

\* Line 53: the entries of the notification are used up; back to line 52.
RecordsDone ==
    /\ gpc = "item"
    /\ idx = Len(record)
    /\ gpc' = "fetch"
    /\ UNCHANGED <<config, cons, sub, orphan, credentials, connects, record, idx,
                   object_metadata, delivered, srcEnded, yielded, sent, err>>

\* ------------------------------------------------------------ the publisher
Merge(f, g) ==
    [k \in DOMAIN f \cup DOMAIN g |-> IF k \in DOMAIN g THEN g[k] ELSE f[k]]

\* The resolved address and filesystem descriptor of a location.
ResolvedAddress(path) ==
    [url |-> path.url, fs |-> <<"s3fs.core.S3FileSystem", "s3">>]

\* BuildMessage with the address set first and the metadata merged last.
BuildMessageMetadataLast(event) ==
    [subject |-> message_config.subject,
     atype |-> message_config.atype,
     data |-> Merge(Merge(message_config.data, ResolvedAddress(event.path)),
                    event.metadata)]

\* The outbound message of one event: static data, then the extracted
\* metadata, then the resolved address.
BuildMessage(event) ==
    [subject |-> message_config.subject,
     atype |-> message_config.atype,
     data |-> Merge(Merge(message_config.data, event.metadata),
                    ResolvedAddress(event.path))]

\* The publish loop, for the event just yielded: the message is handed to the
\* sink, which accepts it or fails hard; a failure leaves the loop.
PublishEvent ==
    /\ mode = "publisher"
    /\ cons = "waiting"
    /\ gpc = "yielded"
    /\ \E accepted \in BOOLEAN :
          IF accepted
          THEN /\ sent' = Append(sent, BuildMessage(yielded[Len(yielded)]))
               /\ cons' = "ready"
               /\ err' = err
          ELSE /\ sent' = sent
               /\ cons' = "failed"
               /\ err' = "SinkFailure"
    /\ UNCHANGED <<config, gpc, sub, orphan, credentials, connects, record, idx,
                   object_metadata, delivered, srcEnded, yielded>>

\* ---------------------------------------------------- the direct consumer
\* next() returns the event to a consumer iterating over file_generator.
ReceiveEvent ==
    /\ mode = "iterate"
    /\ cons = "waiting"
    /\ gpc = "yielded"
    /\ cons' = "ready"
    /\ UNCHANGED <<config, gpc, sub, orphan, credentials, connects, record, idx,
                   object_metadata, delivered, srcEnded, yielded, sent, err>>

\* The generator returned: StopIteration ends the consumer's loop.
SequenceEnds ==
    /\ cons = "waiting"
    /\ gpc = "done"
    /\ cons' = "returned"
    /\ UNCHANGED <<config, gpc, sub, orphan, credentials, connects, record, idx,
                   object_metadata, delivered, srcEnded, yielded, sent, err>>

\* The exception that left the generator reaches the consumer and, through
\* the publish loop, the caller of file_publisher.
ErrorPropagates ==
    /\ cons = "waiting"
    /\ gpc = "raised"
    /\ cons' = "failed"
    /\ UNCHANGED <<config, gpc, sub, orphan, credentials, connects, record, idx,
                   object_metadata, delivered, srcEnded, yielded, sent, err>>

\* CloseSequence honoured only once the dequeued notification is drained: the
\* rest of its matching entries is yielded first.
RECURSIVE RestEvents(_)
RestEvents(items) ==
    IF items = <<>> THEN <<>>
    ELSE LET item == Head(items) IN
         IF HasBucketName(item) /\ HasObjectKey(item)
            /\ ~parse_metadata(file_pattern, item.s3.object.key).raised
         THEN <<[path |-> UPath(item.s3.bucket.name, item.s3.object.key, Options),
                 metadata |-> parse_metadata(file_pattern, item.s3.object.key).metadata]>>
              \o RestEvents(Tail(items))
         ELSE RestEvents(Tail(items))

CloseSequenceDraining ==
    /\ mode = "iterate"
    /\ cons = "ready"
    /\ gpc \in {"created", "yielded"}
    /\ cons' = "closed"
    /\ gpc' = "closed"
    /\ yielded' = yielded \o RestEvents(SubSeq(record, idx + 1, Len(record)))
    /\ idx' = Len(record)
    /\ IF sub = "open"
       THEN \E atOnce \in BOOLEAN :
               IF atOnce
               THEN sub' = "released" /\ orphan' = orphan
               ELSE sub' = sub /\ orphan' = TRUE
       ELSE UNCHANGED <<sub, orphan>>
    /\ UNCHANGED <<config, credentials, connects, record, object_metadata,
                   delivered, srcEnded, sent, err>>

\* The consumer closes the sequence: GeneratorExit is raised at line 62 (or
\* the unstarted generator is marked closed) and close() returns. Nothing in
\* file_generator closes _record_generator: a reference-counting runtime
\* finalizes it at once, any other leaves it to the collector.
CloseSequence ==
    /\ mode = "iterate"
    /\ cons = "ready"
    /\ gpc \in {"created", "yielded"}
    /\ cons' = "closed"
    /\ gpc' = "closed"
    /\ IF sub = "open"
       THEN \E atOnce \in BOOLEAN :
               IF atOnce
               THEN sub' = "released" /\ orphan' = orphan
               ELSE sub' = sub /\ orphan' = TRUE
       ELSE UNCHANGED <<sub, orphan>>
    /\ UNCHANGED <<config, credentials, connects, record, idx, object_metadata,
                   delivered, srcEnded, yielded, sent, err>>

\* The consumer stops pulling (leaves its loop) without closing the sequence.
StopPulling ==
    /\ mode = "iterate"
    /\ cons = "ready"
    /\ gpc \in {"created", "yielded"}
    /\ cons' = "stopped"
    /\ UNCHANGED <<config, gpc, sub, orphan, credentials, connects, record, idx,
                   object_metadata, delivered, srcEnded, yielded, sent, err>>

\* The runtime finalizes an abandoned generator: GeneratorExit at line 85
\* leaves the with-block of line 79, which releases the subscription.
Finalize ==
    /\ sub = "open"
    /\ \/ orphan
       \/ cons \in {"stopped", "failed"} /\ gpc = "yielded"
    /\ sub' = "released"
    /\ orphan' = FALSE
    /\ gpc' = IF gpc = "yielded" THEN "closed" ELSE gpc
    /\ UNCHANGED <<config, cons, credentials, connects, record, idx,
                   object_metadata, delivered, srcEnded, yielded, sent, err>>

Next ==
    \/ file_publisher
    \/ file_generator
    \/ PullNext
    \/ RecordGeneratorOpen
    \/ NextNotification
    \/ SubscriptionExhausted
    \/ SubscriptionReadError
    \/ NormalizeItem
    \/ RecordsDone
    \/ PublishEvent
    \/ ReceiveEvent
    \/ SequenceEnds
    \/ ErrorPropagates
    \/ CloseSequence
    \/ StopPulling
    \/ Finalize

Spec == Init /\ [][Next]_vars

\* ------------------------------------------------- vocabulary of the claims
RECURSIVE Flatten(_)
Flatten(notifs) ==
    IF notifs = <<>> THEN <<>> ELSE Head(notifs) \o Flatten(Tail(notifs))

\* The entries the inner loop has taken so far, over all notifications.
Examined ==
    SubSeq(Flatten(delivered), 1, TotalEntries(delivered) - (Len(record) - idx))

WellFormed(item) == HasBucketName(item) /\ HasObjectKey(item)

\* The entry's key is accepted by the configured pattern.
IsMatch(item) ==
    /\ WellFormed(item)
    /\ \/ file_pattern = None
       \/ PatternMatches(file_pattern[1], item.s3.object.key)

IsNoMatch(item) == WellFormed(item) /\ ~IsMatch(item)

\* s3://<bucket>/<key> of an entry.
Location(item) == <<"s3://", item.s3.bucket.name, "/">> \o item.s3.object.key

RECURSIVE MatchingLocations(_)
MatchingLocations(items) ==
    IF items = <<>> THEN <<>>
    ELSE IF IsMatch(Head(items))
         THEN <<Location(Head(items))>> \o MatchingLocations(Tail(items))
         ELSE MatchingLocations(Tail(items))

YieldedLocations == [i \in 1..Len(yielded) |-> yielded[i].path.url]
SentLocations == [i \in 1..Len(sent) |-> sent[i].data.url]

Terminal == cons \in {"returned", "failed", "closed", "stopped"}

\* ----------------------------------------------------------------- claims
\* C1: the events yielded so far are exactly the events of the matching
\* entries taken so far, in the order of the entries within a notification
\* and of the notifications: nothing reordered, duplicated or held back.
C1_YieldOrder == YieldedLocations = MatchingLocations(Examined)

\* Two notifications have contributed events, three in all, no two alike.
C1_Witness ==
    /\ Len(delivered) = 2
    /\ Len(delivered[1]) = 1
    /\ Len(yielded) = 3
    /\ yielded[1] # yielded[2]
    /\ yielded[2] # yielded[3]

\* C2: an entry whose key does not match is skipped alone: the error a
\* generator ends with is never due to it, and a sequence that ends normally
\* has yielded exactly the N matching entries of the stream, in order.
C2_NoMatchSkipped ==
    /\ err \in {"none", "TypeError", "KeyError", "ConnectError", "ReadError",
                "SinkFailure"}
    /\ err = "KeyError" => ~WellFormed(Examined[Len(Examined)])
    /\ gpc = "done" =>
          /\ Len(yielded) =
                Cardinality({i \in 1..TotalEntries(delivered) : IsMatch(Flatten(delivered)[i])})
          /\ YieldedLocations = MatchingLocations(Flatten(delivered))

\* A non-matching entry was followed by matching entries of the same and of
\* a later notification, and the sequence ended normally.
C2_Witness ==
    /\ gpc = "done"
    /\ Len(delivered) = 2
    /\ Len(delivered[1]) = 2
    /\ IsNoMatch(delivered[1][1])
    /\ IsMatch(delivered[1][2])
    /\ Len(delivered[2]) = 1
    /\ IsMatch(delivered[2][1])
    /\ Len(yielded) = 2

\* C3: an entry lacking its bucket name or its object key is skipped alone:
\* no error leaves file_generator because of it.
C3_MalformedSkipped ==
    \A i \in 1..Len(Examined) : ~WellFormed(Examined[i]) => err # "KeyError"

\* C4: the publish loop has sent one message per event it was given, in
\* order, the i-th message carrying the location of the i-th matching entry;
\* when file_publisher returns, every matching entry has its message.
C4_OneMessagePerEvent ==
    mode = "publisher" =>
       /\ Len(sent) <= Len(yielded)
       /\ Len(yielded) <= Len(sent) + 1
       /\ SentLocations = SubSeq(MatchingLocations(Examined), 1, Len(sent))
       /\ cons = "returned" =>
             SentLocations = MatchingLocations(Flatten(delivered))

\* K = 2 notifications of one matching entry each, of different buckets,
\* then the end: 2 messages.
C4_Witness ==
    /\ mode = "publisher"
    /\ cons = "returned"
    /\ Len(delivered) = 2
    /\ Len(delivered[1]) = 1
    /\ Len(delivered[2]) = 1
    /\ Len(sent) = 2
    /\ sent[1].data.url # sent[2].data.url
    /\ sent[2].data.url[2] = "archive"

\* C5: when the sink rejects the k-th event, k-1 messages have been sent, the
\* loop has ended with the sink's failure at the caller, and the last entry
\* taken from the source is the one of the k-th event: nothing after it is
\* taken, then or later.
C5_SinkFailureFatal ==
    err = "SinkFailure" =>
       /\ cons = "failed"
       /\ gpc \in {"yielded", "closed"}
       /\ Len(sent) = Len(yielded) - 1
       /\ SentLocations = SubSeq(YieldedLocations, 1, Len(yielded) - 1)
       /\ Examined # <<>>
       /\ IsMatch(Examined[Len(Examined)])
       /\ Location(Examined[Len(Examined)]) = yielded[Len(yielded)].path.url
       /\ Len(MatchingLocations(Examined)) = Len(yielded)

\* The second event is rejected while its notification still holds a
\* further matching entry.
C5_Witness ==
    /\ err = "SinkFailure"
    /\ Len(sent) = 1
    /\ Len(yielded) = 2
    /\ idx < Len(record)
    /\ IsMatch(record[idx + 1])

\* C6: on every exit path of the sequence (exhaustion, the consumer closing
\* it or ceasing to pull, an error while an event is normalized or
\* published) the subscription has been released: it is never open once the
\* consumer is out of its loop.
C6_ReleasedOnEveryExit == Terminal => sub # "open"

\* C7: once the owner has closed a running sequence, nothing more is yielded,
\* the subscription is released and the close call has raised nothing.
C7_CancellationReleases ==
    cons = "closed" => /\ gpc = "closed"
                       /\ err = "none"
                       /\ sub # "open"

\* C8: a sequence closed while a dequeued notification still has entries
\* left has yielded the matching ones among them before it stopped.
C8_CancelDrainsBatch ==
    cons = "closed" => \A j \in (idx + 1)..Len(record) : ~IsMatch(record[j])

\* C8 as amended: closing the sequence stops it at the yield it is suspended
\* at; from the close on no entry of the dequeued notification is taken and
\* no event is yielded, whatever the notification still holds.
C8_CloseStopsAtYield ==
    [][cons' = "closed" =>
          /\ yielded' = yielded
          /\ idx' = idx
          /\ record' = record
          /\ delivered' = delivered]_vars

\* The sequence was closed after its first event with a matching entry of
\* the same notification still to come.
C8_Witness ==
    /\ cons = "closed"
    /\ gpc = "closed"
    /\ Len(yielded) = 1
    /\ idx < Len(record)
    /\ IsMatch(record[idx + 1])

C10_NoSilentTruncation ==
    /\ gpc = "done" =>
          /\ srcEnded
          /\ err = "none"
          /\ Examined = Flatten(delivered)
    /\ cons = "returned" => (srcEnded /\ err = "none")
    /\ err = "ReadError" =>
          /\ gpc = "raised"
          /\ cons \in {"waiting", "failed"}
          /\ ~srcEnded
          /\ YieldedLocations = MatchingLocations(Examined)

\* A read error reached the consumer after two events of two notifications.
C10_Witness ==
    /\ cons = "failed"
    /\ err = "ReadError"
    /\ Len(delivered) = 2
    /\ Len(yielded) = 2

\* The pipeline state of the spec's state machine, read off the publish loop
\* and the generator.
Phase ==
    IF cons = "idle" THEN "Idle"
    ELSE IF cons = "failed" \/ gpc = "raised" THEN "Failed"
    ELSE IF gpc = "done" THEN "Draining"
    ELSE IF gpc \in {"created", "open"} THEN "Connecting"
    ELSE "Streaming"

PhaseRank(ph) ==
    CASE ph = "Idle" -> 0
      [] ph = "Connecting" -> 1
      [] ph = "Streaming" -> 2
      [] OTHER -> 3

\* C11: the pipeline of file_publisher is in Failed only through an
\* unrecoverable source or sink error and in Draining only through the
\* exhaustion of the backend sequence, every event then having its message.
C11_StateMachine ==
    mode = "publisher" =>
       /\ Phase = "Failed" => err \in {"ConnectError", "ReadError", "SinkFailure"}
       /\ Phase = "Draining" => (srcEnded /\ Len(sent) = Len(yielded))

\* The transitions of C11 that the code does follow: the phase never goes
\* back, Draining and Failed are never left, and no message is sent in them.
C11_ForwardOnly ==
    [][mode = "publisher" =>
          /\ PhaseRank(Phase') >= PhaseRank(Phase)
          /\ PhaseRank(Phase) = 3 => (Phase' = Phase /\ sent' = sent)]_vars

\* The steps of the program itself are taken when they can be: a generator
\* that can run runs, and the publish loop asks for the next event. The
\* transport, the sink and a direct consumer are under no such obligation.
LiveSpec ==
    /\ Spec
    /\ WF_vars(NormalizeItem)
    /\ WF_vars(RecordsDone)
    /\ WF_vars(SequenceEnds)
    /\ WF_vars(ErrorPropagates)
    /\ WF_vars(mode = "publisher" /\ PullNext)

\* C12: once the subscription is exhausted, file_publisher returns, with the
\* message of every matching entry delivered before the end sent, in order.
C12_PublisherReturns ==
    (mode = "publisher" /\ srcEnded) ~>
       (cons = "returned" /\ SentLocations = MatchingLocations(Flatten(delivered)))

\* file_publisher has returned after three messages over two notifications.
C12_Witness ==
    /\ mode = "publisher"
    /\ cons = "returned"
    /\ srcEnded
    /\ Len(delivered) = 2
    /\ Len(sent) = 3

\* C19: the configuration the tests pass (endpoint, bucket, and the profile
\* as the option `profile`) is accepted: the call raises nothing and the
\* pipeline starts.
C19_TestConfigAccepted ==
    fs_config = TestFsConfig =>
       /\ err # "TypeError"
       /\ cons # "idle" => gpc # "none"

\* C13: with no file_pattern every entry naming a bucket and a key is
\* accepted: one event per entry taken, each with the entry's location and
\* with empty metadata.
C13_NoPatternAcceptsAll ==
    "file_pattern" \notin DOMAIN fs_config =>
       /\ file_pattern = None
       /\ Len(yielded) =
             Cardinality({i \in 1..Len(Examined) : WellFormed(Examined[i])})
       /\ \A i \in 1..Len(yielded) :
             /\ yielded[i].metadata = EmptyMetadata
             /\ yielded[i].path.url = Location(Examined[i])

\* Three entries of two notifications, of two buckets and with a prefixed
\* key among them, were all yielded and the sequence ended.
C13_Witness ==
    /\ "file_pattern" \notin DOMAIN fs_config
    /\ gpc = "done"
    /\ Len(delivered) = 2
    /\ Len(yielded) = 3
    /\ Flatten(delivered) = <<EntrySdr, EntryGITCO, EntrySVM13>>

\* C14: every element the consumer receives is the location
\* s3://<bucket>/<key> of its entry, bucket and key (prefix included) those
\* of the entry; for the fixture's first record, s3://viirs-data/sdr/SVM13.h5.
C14_ElementIsLocation ==
    \A i \in 1..Len(yielded) :
       \E j \in 1..Len(Examined) :
          /\ WellFormed(Examined[j])
          /\ yielded[i] = UPath(Examined[j].s3.bucket.name,
                                Examined[j].s3.object.key, Options)

\* What holds of C14: the first component of every element is that location.
C14_PathIsLocation ==
    \A i \in 1..Len(yielded) :
       /\ DOMAIN yielded[i] = {"path", "metadata"}
       /\ yielded[i].path \in
             {UPath(Examined[j].s3.bucket.name, Examined[j].s3.object.key, Options) :
                 j \in {k \in 1..Len(Examined) : WellFormed(Examined[k])}}

\* C15: in the data of every message a field of the resolved address has the
\* address's value, any other field the extracted metadata holds has the
\* extracted value, and the remaining fields are the static ones.
C15_MergePrecedence ==
    \A i \in 1..Len(sent) :
       LET event == yielded[i]
           data == sent[i].data
           address == ResolvedAddress(event.path)
       IN  /\ DOMAIN data = DOMAIN message_config.data \cup DOMAIN event.metadata
                               \cup DOMAIN address
           /\ \A k \in DOMAIN data :
                 data[k] = IF k \in DOMAIN address THEN address[k]
                           ELSE IF k \in DOMAIN event.metadata THEN event.metadata[k]
                           ELSE message_config.data[k]

\* A message was sent for which the static data, the extracted metadata and
\* the address all hold a field `url`, and the static data alone `product`.
C15_Witness ==
    /\ Len(sent) >= 1
    /\ "url" \in DOMAIN message_config.data
    /\ "url" \in DOMAIN yielded[1].metadata
    /\ yielded[1].metadata.url # yielded[1].path.url
    /\ sent[1].data.url = yielded[1].path.url
    /\ sent[1].data.product = message_config.data.product

RECURSIVE MatchingEntries(_)
MatchingEntries(items) ==
    IF items = <<>> THEN <<>>
    ELSE IF IsMatch(Head(items))
         THEN <<Head(items)>> \o MatchingEntries(Tail(items))
         ELSE MatchingEntries(Tail(items))

\* C16: every message has the subject and the type of the message
\* configuration, keeps each static data field that neither the metadata nor
\* the address holds, and carries the address of its own entry; for bucket
\* viirs-data and key sdr/SVM13.h5 that is s3://viirs-data/sdr/SVM13.h5.
C16_StaticFieldsKept ==
    \A i \in 1..Len(sent) :
       LET entry == MatchingEntries(Examined)[i]
           data == sent[i].data
       IN  /\ sent[i].subject = "/segment/viirs/l1b/"
           /\ sent[i].atype = "file"
           /\ data.sensor = <<"viirs">>
           /\ \A k \in DOMAIN message_config.data \ (DOMAIN yielded[i].metadata \cup {"url", "fs"}) :
                 data[k] = message_config.data[k]
           /\ data.url = <<"s3://", entry.s3.bucket.name, "/">> \o entry.s3.object.key
           /\ entry = EntrySdr =>
                 data.url = <<"s3://", "viirs-data", "/", "sdr/", "SVM13", ".h5">>

\* The message of the entry with bucket viirs-data and key sdr/SVM13.h5 was
\* sent, no pattern configured, the static field product kept.
C16_Witness ==
    /\ file_pattern = None
    /\ Len(sent) = 1
    /\ Examined = <<EntrySdr>>
    /\ sent[1].data.product = <<"static">>
    /\ sent[1].data.sensor = <<"viirs">>

\* What file_generator may read of an entry: its bucket name and its key.
Core(item) ==
    IF WellFormed(item)
    THEN [wellFormed |-> TRUE, bucket |-> item.s3.bucket.name, key |-> item.s3.object.key]
    ELSE [wellFormed |-> FALSE, bucket |-> "", key |-> <<>>]

\* The events of a stream, computed from the cores of its entries, the
\* pattern and the options alone.
RECURSIVE EventsOfCores(_)
EventsOfCores(cores) ==
    IF cores = <<>> THEN <<>>
    ELSE LET c == Head(cores) IN
         IF c.wellFormed /\ ~parse_metadata(file_pattern, c.key).raised
         THEN <<[path |-> [url |-> <<"s3://", c.bucket, "/">> \o c.key,
                           storage_options |-> Options],
                 metadata |-> parse_metadata(file_pattern, c.key).metadata]>>
              \o EventsOfCores(Tail(cores))
         ELSE EventsOfCores(Tail(cores))

\* C17: the events yielded are determined by the bucket names and keys of
\* the entries taken (with the pattern and the options): streams that agree
\* on these yield the same events, whatever their other fields.
C17_OtherFieldsIgnored ==
    yielded = EventsOfCores([i \in 1..Len(Examined) |-> Core(Examined[i])])

\* Two entries that differ in event name, time, ETag, size and user agent
\* only were both taken, and their events are equal.
C17_Witness ==
    /\ Len(Examined) = 2
    /\ Examined[1] = EntrySVM13
    /\ Examined[2] = EntrySVM13Copy
    /\ Len(yielded) = 2
    /\ yielded[1] = yielded[2]

\* The key part of a location s3://<bucket>/<key>.
KeyOfUrl(url) == SubSeq(url, 4, Len(url))

Instances == {1, 2}

Sources ==
    {<< <<EntrySVM13>> >>,
     << <<EntrySdr, EntryGITCO>>, <<EntrySVM13Copy>> >>,
     << <<>>, <<EntryGITCO, EntryNoKey, EntrySVM13>> >>}

TwoInit ==
    /\ pipes \in [Instances ->
                    [source : Sources,
                     bucket_name : {"viirs-data", "archive"},
                     file_pattern : {None, Some(PatternProductH5)},
                     gpc : {"created"}, sub : {"none"}, connects : {0},
                     watched : {None}, taken : {0}, idx : {0},
                     yielded : {<<>>}, err : {"none"}]]
    /\ fs_config = FsConfigBase
    /\ file_pattern = None
    /\ storage_options = None
    /\ mode = "iterate"
    /\ cons = "idle"
    /\ gpc = "none"
    /\ sub = "none"
    /\ orphan = FALSE
    /\ credentials = None
    /\ connects = 0
    /\ record = <<>>
    /\ idx = 0
    /\ object_metadata = EmptyMetadata
    /\ delivered = <<>>
    /\ srcEnded = FALSE
    /\ yielded = <<>>
    /\ sent = <<>>
    /\ err = "none"

single == <<fs_config, file_pattern, storage_options, mode, cons, gpc, sub, orphan,
            credentials, connects, record, idx, object_metadata, delivered,
            srcEnded, yielded, sent, err>>

\* The notification instance i is expanding.
TwoRecord(i) ==
    IF pipes[i].taken = 0 THEN <<>> ELSE pipes[i].source[pipes[i].taken]

\* next() on instance i: it starts, or resumes after its yield.
TwoPull(i) ==
    /\ pipes[i].gpc \in {"created", "yielded"}
    /\ pipes' = [pipes EXCEPT ![i].gpc = IF @ = "created" THEN "open" ELSE "item"]
    /\ UNCHANGED single

\* TwoOpen with the subscriptions kept in a module-level cache: an instance
\* that starts while another one is listening takes that one's subscription.
TwoOpenCached(i) ==
    /\ pipes[i].gpc = "open"
    /\ IF \E j \in Instances \ {i} : pipes[j].sub = "open"
       THEN LET j == CHOOSE k \in Instances \ {i} : pipes[k].sub = "open" IN
            pipes' = [pipes EXCEPT ![i].gpc = "fetch", ![i].sub = "open",
                                   ![i].watched = pipes[j].watched]
       ELSE pipes' = [pipes EXCEPT ![i].gpc = "fetch", ![i].sub = "open",
                                   ![i].connects = @ + 1,
                                   ![i].watched = Some(pipes[i].bucket_name)]
    /\ UNCHANGED single

\* Lines 65-83 for instance i: its own client, and its own subscription to
\* its own bucket_name (lines 79-80).
TwoOpen(i) ==
    /\ pipes[i].gpc = "open"
    /\ pipes' = [pipes EXCEPT ![i].gpc = "fetch", ![i].sub = "open",
                              ![i].connects = @ + 1,
                              ![i].watched = Some(pipes[i].bucket_name)]
    /\ UNCHANGED single

\* Lines 84-85 for instance i: the next notification of its source, or the
\* end of it.
TwoFetch(i) ==
    /\ pipes[i].gpc = "fetch"
    /\ IF pipes[i].taken < Len(pipes[i].source)
       THEN pipes' = [pipes EXCEPT ![i].taken = @ + 1, ![i].idx = 0,
                                   ![i].gpc = "item"]
       ELSE pipes' = [pipes EXCEPT ![i].gpc = "done", ![i].sub = "released"]
    /\ UNCHANGED single

\* TwoItem with the position in the notification kept in one place for all
\* instances (a module-level cursor) instead of in each generator's frame.
TwoItemSharedCursor(i) ==
    /\ pipes[i].gpc = "item"
    /\ pipes[1].idx < Len(TwoRecord(i))
    /\ LET item == TwoRecord(i)[pipes[1].idx + 1]
           moved == [pipes EXCEPT ![1].idx = @ + 1]
       IN
       IF ~(HasBucketName(item) /\ HasObjectKey(item))
       THEN pipes' = [moved EXCEPT ![i].gpc = "raised", ![i].err = "KeyError"]
       ELSE LET new_bucket_name == item.s3.bucket.name
                object_name == item.s3.object.key
                parsed == parse_metadata(pipes[i].file_pattern, object_name)
            IN  IF parsed.raised
                THEN pipes' = moved
                ELSE pipes' = [moved EXCEPT
                        ![i].gpc = "yielded",
                        ![i].yielded = Append(@,
                           [path |-> UPath(new_bucket_name, object_name, EmptyOptions),
                            metadata |-> parsed.metadata])]
    /\ UNCHANGED single

\* Lines 53-62 for instance i, one entry of its current notification.
TwoItem(i) ==
    /\ pipes[i].gpc = "item"
    /\ pipes[i].idx < Len(TwoRecord(i))
    /\ LET item == TwoRecord(i)[pipes[i].idx + 1]
           moved == [pipes EXCEPT ![i].idx = @ + 1]
       IN
       IF ~(HasBucketName(item) /\ HasObjectKey(item))
       THEN pipes' = [moved EXCEPT ![i].gpc = "raised", ![i].err = "KeyError"]
       ELSE LET new_bucket_name == item.s3.bucket.name
                object_name == item.s3.object.key
                parsed == parse_metadata(pipes[i].file_pattern, object_name)
            IN  IF parsed.raised
                THEN pipes' = moved
                ELSE pipes' = [moved EXCEPT
                        ![i].gpc = "yielded",
                        ![i].yielded = Append(@,
                           [path |-> UPath(new_bucket_name, object_name, EmptyOptions),
                            metadata |-> parsed.metadata])]
    /\ UNCHANGED single

\* Line 53 for instance i: its notification is used up.
TwoRecordsDone(i) ==
    /\ pipes[i].gpc = "item"
    /\ pipes[i].idx = Len(TwoRecord(i))
    /\ pipes' = [pipes EXCEPT ![i].gpc = "fetch"]
    /\ UNCHANGED single

TwoNext ==
    \E i \in Instances :
       \/ TwoPull(i)
       \/ TwoOpen(i)
       \/ TwoFetch(i)
       \/ TwoItem(i)
       \/ TwoRecordsDone(i)

TwoSpec == TwoInit /\ [][TwoNext]_vars

\* The entries instance i has taken from its own source.
TwoExamined(i) ==
    IF pipes[i].taken = 0 THEN <<>>
    ELSE Flatten(SubSeq(pipes[i].source, 1, pipes[i].taken - 1))
            \o SubSeq(TwoRecord(i), 1, pipes[i].idx)

\* The events file_generator yields for a sequence of entries when it runs
\* alone: those of the matching entries up to the first malformed one.
RECURSIVE EventsAlone(_, _)
EventsAlone(pattern, items) ==
    IF items = <<>> THEN <<>>
    ELSE LET item == Head(items) IN
         IF ~WellFormed(item) THEN <<>>
         ELSE IF parse_metadata(pattern, item.s3.object.key).raised
              THEN EventsAlone(pattern, Tail(items))
              ELSE <<[path |-> [url |-> Location(item), storage_options |-> EmptyOptions],
                      metadata |-> parse_metadata(pattern, item.s3.object.key).metadata]>>
                   \o EventsAlone(pattern, Tail(items))

\* C18: whatever the interleaving, each instance has yielded the events it
\* yields on its own for the entries it has taken from its own source, in
\* their order, and all the events of its source once it has ended; each has
\* its own subscription, open exactly while that instance is streaming.
C18_InstancesIndependent ==
    pipes # <<>> =>
       \A i \in Instances :
          /\ pipes[i].yielded = EventsAlone(pipes[i].file_pattern, TwoExamined(i))
          /\ pipes[i].gpc = "done" =>
                pipes[i].yielded =
                   EventsAlone(pipes[i].file_pattern, Flatten(pipes[i].source))
          /\ pipes[i].sub = "open" <=>
                pipes[i].gpc \in {"fetch", "item", "yielded", "raised"}

\* Both instances are in the middle of different notifications of different
\* sources, each with events of its own yielded.
C18_Witness ==
    /\ pipes # <<>>
    /\ pipes[1].source # pipes[2].source
    /\ pipes[1].gpc = "yielded"
    /\ pipes[2].gpc = "yielded"
    /\ Len(pipes[1].yielded) = 2
    /\ Len(pipes[2].yielded) = 1
    /\ pipes[1].idx # pipes[2].idx

\* C21: the pipeline is pull-driven with no lookahead. Entries are taken,
\* notifications read and events yielded only while the consumer is inside
\* its request for the next event; in the publish loop the message of every
\* event yielded so far has been handed to the sink before the next entry is
\* taken or the next notification read; a notification is read from the
\* subscription only when every entry of the one before has been taken; the
\* only notification held is the last one read, and at most one event is
\* yielded and not yet sent.
C21_PullDriven ==
    [][/\ (idx' # idx \/ delivered' # delivered \/ yielded' # yielded) =>
             /\ cons = "waiting"
             /\ mode = "publisher" => Len(sent) = Len(yielded)
       /\ delivered' # delivered =>
             /\ idx = Len(record)
             /\ Len(delivered') = Len(delivered) + 1
       /\ record' = IF delivered' = <<>> THEN <<>> ELSE delivered'[Len(delivered')]
       /\ Len(yielded') <= Len(yielded) + 1
       /\ mode = "publisher" => Len(yielded') <= Len(sent') + 1]_vars

\* The publish loop has sent the two events of a notification of two
\* entries and the generator has then read a second notification.
C21_Witness ==
    /\ mode = "publisher"
    /\ Len(delivered) = 2
    /\ Len(delivered[1]) = 2
    /\ Len(sent) = 2
    /\ gpc = "item"
    /\ idx = 0
    /\ Len(record) = 1

\* C22: the metadata of every yielded event is the one extracted from the
\* key of its own location, whatever was extracted or skipped before it, and
\* the data of the i-th message is the static data overlaid with the
\* metadata of the i-th event's own key and then with its own address.
C22_OwnMetadata ==
    /\ \A i \in 1..Len(yielded) :
          LET own == parse_metadata(file_pattern, KeyOfUrl(yielded[i].path.url)) IN
          /\ ~own.raised
          /\ yielded[i].metadata = own.metadata
    /\ gpc = "yielded" => object_metadata = yielded[Len(yielded)].metadata
    /\ Len(sent) <= Len(yielded)
    /\ \A i \in 1..Len(sent) :
          LET own == parse_metadata(file_pattern, KeyOfUrl(yielded[i].path.url)) IN
          sent[i].data = Merge(Merge(message_config.data, own.metadata),
                               ResolvedAddress(yielded[i].path))

\* Two messages with different extracted products, an entry whose key did
\* not match skipped between their entries.
C22_Witness ==
    /\ file_pattern = Some(PatternProductH5)
    /\ Len(Examined) = 3
    /\ IsNoMatch(Examined[2])
    /\ Len(sent) = 2
    /\ sent[1].data.product = <<"SVM13">>
    /\ sent[2].data.product = <<"GITCO">>

\* C23: a call of file_generator opens nothing: as long as its sequence has
\* not been asked for an event there is no client call and no subscription.
\* From its first request on, the sequence has called
\* listen_bucket_notification exactly once, for the bucket_name it was called
\* with, and never again; each of two calls has a subscription of its own.
C23_OneSubscriptionPerSequence ==
    pipes # <<>> =>
       \A i \in Instances :
          /\ pipes[i].gpc = "created" =>
                /\ pipes[i].sub = "none"
                /\ pipes[i].connects = 0
                /\ pipes[i].watched = None
          /\ pipes[i].connects <= 1
          /\ pipes[i].sub # "none" <=> pipes[i].connects = 1
          /\ pipes[i].gpc \notin {"created", "open"} =>
                /\ pipes[i].connects = 1
                /\ pipes[i].watched = Some(pipes[i].bucket_name)

\* The second sequence has run to its end, through two notifications, on
\* its one subscription while the first, called for another bucket, is
\* listening on its own.
C23_Witness ==
    /\ pipes # <<>>
    /\ pipes[1].bucket_name # pipes[2].bucket_name
    /\ pipes[1].sub = "open"
    /\ pipes[1].watched = Some(pipes[1].bucket_name)
    /\ pipes[2].gpc = "done"
    /\ pipes[2].taken = 2
    /\ pipes[2].connects = 1
    /\ pipes[2].watched = Some(pipes[2].bucket_name)

\* C23, for the single pipeline with its consumer: between the call and the
\* consumer's first request nothing is opened, and the one call of
\* listen_bucket_notification is made while the consumer is waiting for its
\* first event.
C23_OpenedOnFirstPull ==
    [][/\ gpc' = "created" => (sub' = "none" /\ connects' = 0 /\ credentials' = None)
       /\ connects' # connects =>
             (cons = "waiting" /\ connects = 0 /\ yielded = <<>> /\ delivered = <<>>)]_vars

\* The storage options the caller passed, an empty mapping when none.
CallerOptions ==
    IF "storage_options" \in DOMAIN fs_config
    THEN fs_config.storage_options ELSE EmptyOptions

\* C24: the storage options used by a started sequence are the caller's, an
\* empty mapping when the caller gave none; every yielded location carries
\* exactly them; the client was built with the credentials of the profile
\* named by the caller's option "profile" when there is one and with no
\* credentials otherwise, including before any client is built.
C24_OptionsForwarded ==
    /\ gpc # "none" => Options = CallerOptions
    /\ \A i \in 1..Len(yielded) : yielded[i].path.storage_options = CallerOptions
    /\ connects = 0 => credentials = None
    /\ connects > 0 =>
          credentials = IF "profile" \in DOMAIN CallerOptions
                        THEN Some(CallerOptions.profile) ELSE None

\* An event was yielded by a sequence called with a profile: location and
\* client both have it.
C24_Witness ==
    /\ CallerOptions = ProfileOptions
    /\ credentials = Some("someprofile")
    /\ Len(yielded) = 2
    /\ yielded[2].path.storage_options = ProfileOptions

\* C25: a notification with an empty list of entries yields nothing and
\* leaves the stream as it is: the generator goes back to the subscription,
\* still open, with no error; and with empty notifications among those
\* delivered, the events yielded are still those of the matching entries of
\* all the notifications, in order.
C25_EmptyNotification ==
    [][/\ (gpc = "item" /\ record = <<>>) =>
             /\ gpc' = "fetch"
             /\ sub' = "open"
             /\ err' = "none"
             /\ yielded' = yielded
       /\ (\E j \in 1..Len(delivered') : delivered'[j] = <<>>) =>
             YieldedLocations' = MatchingLocations(Examined)']_vars

\* An empty notification was followed by one of two matching entries, both
\* yielded, and the sequence ended normally.
C25_Witness ==
    /\ Len(delivered) = 2
    /\ delivered[1] = <<>>
    /\ Len(delivered[2]) = 2
    /\ Len(yielded) = 2
    /\ cons = "returned"

====
